---- MODULE Spec2Model ----
(***************************************************************************)
(* Model of csps.py: backtracking search over a binary constraint graph    *)
(* (asignacion_completa / asignacion_grafo_restriccion), the consistency   *)
(* enforcer (consistencia, levels 0, 1 and 2) and the min-conflicts local  *)
(* search (minimos_conflictos), over the graphs of nreinasCSP.py and       *)
(* sudoku.py.                                                              *)
(*                                                                         *)
(* Conventions.  A Python dict is a function whose DOMAIN is its key set;  *)
(* the empty dict is <<>>.  A set of small non-negative ints is enumerated *)
(* by CPython in ascending order, so list(set), max(set, key), min(list,   *)
(* key) and the stable sorted(...) break ties towards the smaller element. *)
(* set.pop() on the worklist of pairs and random.choice are unconstrained  *)
(* choices and are modelled with \E.                                       *)
(***************************************************************************)
EXTENDS Integers, Sequences, FiniteSets, TLC

\* Largest number of variables of a graph handed to the entry points, and
\* largest value given as a clue.
MaxN == 3

MaxPista == 2

\* The ring graphs handed to the level-2 search: their number of variables
\* and their largest value.
NAnillo == 4

\* The number of variables of the chain graphs searched at the three levels.
NCadena == 5

MaxV == 3

\* Largest max_iter and paciencia handed to minimos_conflictos.
MaxIter == 3

MaxPaciencia == 1

\* The queens of the scenario of the backtracking search: Nreinas().
ReinasEscenario == 4

\* The run of the 2-queens scenario: max_iter = 100 and the default paciencia.
IterEscenario == 100

PacienciaDefecto == 5

\* min_conflictos = 1e10; TLC's integers have 32 bits, so the value is
\* stood for by 10^9, which like 1e10 is above every total of conflicts.
Infinito == 1000000000

VARIABLES
    X,            \* csp.X: the set of variables
    N,            \* csp.N: variable -> set of neighbours
    tipo,         \* which restriccion_binaria the graph has
    D,            \* csp.D: variable -> current set of candidate values
    Dini,         \* csp.D as it was when the entry point was called
    nivel,        \* the consistency level passed to the entry point
    cuenta,       \* level -> csp.backtracking at the end of the run at that level
    asignacion,   \* the shared assignment dict
    backtracking, \* csp.backtracking
    pila,         \* the active invocations of asignacion_grafo_restriccion
    pc,           \* position of the running code
    apn,          \* value being returned by the innermost finished invocation
    dom_red,      \* consistencia's reversal record while its AC-3 loop runs
    pendientes,   \* consistencia's worklist while its AC-3 loop runs
    Dpre,         \* csp.D as it was when the last consistencia call started
    cons,         \* how the last step left consistencia: "nada", "exito", or the
                  \* stage that failed: "incompatible", "vaciado_fc", "vaciado_ac3"
    asign,        \* minimos_conflictos: the working assignment
    min_conflictos, \* minimos_conflictos: best total seen since the last restart
    repeticiones, \* minimos_conflictos: iterations without improvement
    iteracion,    \* minimos_conflictos: iterations of the for loop started so far
    max_iter,     \* minimos_conflictos: parameter
    paciencia     \* minimos_conflictos: parameter

grafo == <<X, N, tipo, Dini, nivel, cuenta>>

bt == <<asignacion, backtracking, pila, apn, dom_red, pendientes, Dpre, cons>>

mc == <<asign, min_conflictos, repeticiones, iteracion, max_iter, paciencia>>

vars == <<grafo, D, pc, bt, mc>>

----------------------------------------------------------------------------
\* Helpers for dicts and numbers

Vacio == <<>>

Abs(i) == IF i < 0 THEN -i ELSE i

Min(S) == CHOOSE m \in S : \A o \in S : m <= o

\* d[k] = v on a dict
Poner(d, k, v) == [y \in DOMAIN d \cup {k} |-> IF y = k THEN v ELSE d[y]]

\* del d[k]
Quitar(d, k) == [y \in DOMAIN d \ {k} |-> d[y]]

\* The value returned for "no assignment"
None == [ok |-> FALSE, a |-> Vacio]

Some(a) == [ok |-> TRUE, a |-> a]

----------------------------------------------------------------------------
\* The constraint graphs

\* reinas without the test of the diagonals
reinasSinDiagonal(x_i, v_i, x_j, v_j) == v_i # v_j

\* Nreinas.restriccion_binaria
reinas(x_i, v_i, x_j, v_j) == v_i # v_j /\ Abs(v_i - v_j) # Abs(x_i - x_j)

\* Sudoku.restriccion_binaria
sudoku(x_i, v_i, x_j, v_j) == v_i # v_j

restriccion_binaria(x_i, v_i, x_j, v_j) ==
    IF tipo = "reinas" THEN reinas(x_i, v_i, x_j, v_j)
                       ELSE sudoku(x_i, v_i, x_j, v_j)

\* Nreinas.__init__: every variable is a neighbour of every other one
Completo(n) == [x \in 1..n |-> (1..n) \ {x}]

\* A graph whose neighbours are the adjacent variables only
Cadena(n) == [x \in 1..n |-> {y \in 1..n : Abs(x - y) = 1}]

\* A graph whose variables form a ring
Anillo(n) == [x \in 1..n |-> {y \in 1..n : y # x /\ Abs(x - y) \in {1, n - 1}}]

----------------------------------------------------------------------------
\* consistencia

\* Restaurar with the restoring loop left out
RestaurarOmitido(Dc, red) == Dc

\* for x in dom_red: csp.D[x].update(dom_red[x])
Restaurar(Dc, red) ==
    [x \in DOMAIN Dc |-> IF x \in DOMAIN red THEN Dc[x] \cup red[x] ELSE Dc[x]]

\* Incompatible with the neighbour test negated
IncompatibleNoVecinos(asg, x_i, v_i) ==
    \E x_j \in DOMAIN asg :
        x_j \notin N[x_i] /\ ~restriccion_binaria(x_i, v_i, x_j, asg[x_j])

\* Level 0 test: an assigned neighbour incompatible with (x_i, v_i)
Incompatible(asg, x_i, v_i) ==
    \E x_j \in DOMAIN asg :
        x_j \in N[x_i] /\ ~restriccion_binaria(x_i, v_i, x_j, asg[x_j])

\* ForwardChecking returning None on a wipe-out without undoing its reductions
RECURSIVE ForwardCheckingSinDeshacer(_, _, _, _, _)
ForwardCheckingSinDeshacer(Dc, red, x_i, v_i, porver) ==
    IF porver = {} THEN [ok |-> TRUE, D |-> Dc, dom_red |-> red, etapa |-> "exito"]
    ELSE LET x_j == Min(porver)
             val_set == {v_j \in Dc[x_j] : ~restriccion_binaria(x_i, v_i, x_j, v_j)}
             red1 == IF val_set # {} THEN Poner(red, x_j, val_set) ELSE red
             D1 == [Dc EXCEPT ![x_j] = Dc[x_j] \ val_set]
         IN  IF D1[x_j] = {}
             THEN [ok |-> FALSE, D |-> D1, dom_red |-> Vacio, etapa |-> "vaciado_fc"]
             ELSE ForwardCheckingSinDeshacer(D1, red1, x_i, v_i, porver \ {x_j})

\* ForwardChecking giving up as soon as a neighbour loses a value
RECURSIVE ForwardCheckingEstricto(_, _, _, _, _)
ForwardCheckingEstricto(Dc, red, x_i, v_i, porver) ==
    IF porver = {} THEN [ok |-> TRUE, D |-> Dc, dom_red |-> red, etapa |-> "exito"]
    ELSE LET x_j == Min(porver)
             val_set == {v_j \in Dc[x_j] : ~restriccion_binaria(x_i, v_i, x_j, v_j)}
         IN  IF val_set # {}
             THEN [ok |-> FALSE, D |-> Restaurar(Dc, red), dom_red |-> Vacio,
                   etapa |-> "vaciado_fc"]
             ELSE ForwardCheckingEstricto(Dc, red, x_i, v_i, porver \ {x_j})

\* Level 1 loop over the unassigned neighbours still in 'porver'
RECURSIVE ForwardChecking(_, _, _, _, _)
ForwardChecking(Dc, red, x_i, v_i, porver) ==
    IF porver = {} THEN [ok |-> TRUE, D |-> Dc, dom_red |-> red, etapa |-> "exito"]
    ELSE LET x_j == Min(porver)
             val_set == {v_j \in Dc[x_j] : ~restriccion_binaria(x_i, v_i, x_j, v_j)}
             red1 == IF val_set # {} THEN Poner(red, x_j, val_set) ELSE red
             D1 == [Dc EXCEPT ![x_j] = Dc[x_j] \ val_set]
         IN  IF D1[x_j] = {}
             THEN [ok |-> FALSE, D |-> Restaurar(D1, red1), dom_red |-> Vacio,
                   etapa |-> "vaciado_fc"]
             ELSE ForwardChecking(D1, red1, x_i, v_i, porver \ {x_j})

\* ConsistenciaBase recording nothing for the collapse of x_i's domain
ConsistenciaBaseSinRegistro(Dc, asg, x_i, v_i, niv) ==
    IF Incompatible(asg, x_i, v_i)
    THEN [ok |-> FALSE, D |-> Dc, dom_red |-> Vacio, etapa |-> "incompatible"]
    ELSE LET red0 == Poner(Vacio, x_i, {})
             D0 == [Dc EXCEPT ![x_i] = {v_i}]
         IN  IF niv >= 1
             THEN ForwardChecking(D0, red0, x_i, v_i, N[x_i] \ DOMAIN asg)
             ELSE [ok |-> TRUE, D |-> D0, dom_red |-> red0, etapa |-> "exito"]

\* ConsistenciaBase reducing every unassigned variable, neighbour or not
ConsistenciaBaseNoVecinos(Dc, asg, x_i, v_i, niv) ==
    IF Incompatible(asg, x_i, v_i)
    THEN [ok |-> FALSE, D |-> Dc, dom_red |-> Vacio, etapa |-> "incompatible"]
    ELSE LET red0 == Poner(Vacio, x_i, Dc[x_i] \ {v_i})
             D0 == [Dc EXCEPT ![x_i] = {v_i}]
         IN  IF niv >= 1
             THEN ForwardChecking(D0, red0, x_i, v_i, X \ (DOMAIN asg \cup {x_i}))
             ELSE [ok |-> TRUE, D |-> D0, dom_red |-> red0, etapa |-> "exito"]

\* Levels 0 and 1 of consistencia
ConsistenciaBase(Dc, asg, x_i, v_i, niv) ==
    IF Incompatible(asg, x_i, v_i)
    THEN [ok |-> FALSE, D |-> Dc, dom_red |-> Vacio, etapa |-> "incompatible"]
    ELSE LET red0 == Poner(Vacio, x_i, Dc[x_i] \ {v_i})
             D0 == [Dc EXCEPT ![x_i] = {v_i}]
         IN  IF niv >= 1
             THEN ForwardChecking(D0, red0, x_i, v_i, N[x_i] \ DOMAIN asg)
             ELSE [ok |-> TRUE, D |-> D0, dom_red |-> red0, etapa |-> "exito"]

\* The initial worklist of level 2
PendientesIniciales(asg) ==
    {<<x_a, x_b>> \in X \X X :
        x_a \notin DOMAIN asg /\ x_b \in N[x_a] /\ x_b \notin DOMAIN asg}

\* SinSoporte taking one incompatible value of x_b for no support
SinSoporteAlguno(Dc, x_a, x_b) ==
    {v_a \in Dc[x_a] : \E v_b \in Dc[x_b] : ~restriccion_binaria(x_a, v_a, x_b, v_b)}

\* The values of x_a without support in x_b
SinSoporte(Dc, x_a, x_b) ==
    {v_a \in Dc[x_a] : \A v_b \in Dc[x_b] : ~restriccion_binaria(x_a, v_a, x_b, v_b)}

\* Acumular overwriting the entry of x_a
AcumularPisando(red, x_a, val_set) == Poner(red, x_a, val_set)

\* dom_red[x_a].update(val_set), creating the entry if needed
Acumular(red, x_a, val_set) ==
    Poner(red, x_a, (IF x_a \in DOMAIN red THEN red[x_a] ELSE {}) \cup val_set)

\* The pairs put back on the worklist after x_a lost a value
Reencolar(asg, x_a) == {<<x_a, x_j>> : x_j \in N[x_a] \ DOMAIN asg}

----------------------------------------------------------------------------
\* Heuristics of the backtracking search

\* max(csp.X, key=...) / min([...], key=...)
selecciona_variable(Dc, asg) ==
    IF DOMAIN asg = {}
    THEN Min({x \in X : \A y \in X : Cardinality(N[y]) <= Cardinality(N[x])})
    ELSE LET libres == X \ DOMAIN asg
         IN  Min({x \in libres :
                    \A y \in libres : Cardinality(Dc[x]) <= Cardinality(Dc[y])})

\* The key of the sort in ordena_valores
conflictos(Dc, asg, x_i, v_i) ==
    Cardinality({p \in UNION {{<<x_j, v_j>> : v_j \in Dc[x_j]} :
                                 x_j \in N[x_i] \ DOMAIN asg} :
                    restriccion_binaria(x_i, v_i, p[1], p[2])})

\* Ordenar without reverse=True: smallest key first
RECURSIVE OrdenarSinReverse(_, _, _, _)
OrdenarSinReverse(S, Dc, asg, x_i) ==
    IF S = {} THEN <<>>
    ELSE LET mejores == {v \in S : \A w \in S :
                            conflictos(Dc, asg, x_i, v) <= conflictos(Dc, asg, x_i, w)}
             v == Min(mejores)
         IN  <<v>> \o OrdenarSinReverse(S \ {v}, Dc, asg, x_i)

\* sorted(S, key, reverse=True): largest key first, equal keys in list order
RECURSIVE Ordenar(_, _, _, _)
Ordenar(S, Dc, asg, x_i) ==
    IF S = {} THEN <<>>
    ELSE LET mejores == {v \in S : \A w \in S :
                            conflictos(Dc, asg, x_i, w) <= conflictos(Dc, asg, x_i, v)}
             v == Min(mejores)
         IN  <<v>> \o Ordenar(S \ {v}, Dc, asg, x_i)

ordena_valores(Dc, asg, x_i) == Ordenar(Dc[x_i], Dc, asg, x_i)

----------------------------------------------------------------------------
\* The backtracking search

\* Sudoku.__init__ gives a cell its clue or every value; a cell may also
\* come with no value at all.  The clues are among the first MaxPista values.
Pistas(n) == {1..n, {}} \cup {{v} : v \in 1..Min({n, MaxPista})}

\* The predicates and the neighbour maps they come with
Formas(n) == {"reinas", "sudoku"} \X {Completo(n), Cadena(n)}

\* A graph of n variables with values 1..n
GrafoDe(n, f) ==
    /\ X = 1..n
    /\ tipo = f[1]
    /\ N = f[2]
    /\ Dini \in [1..n -> Pistas(n)]
    /\ D = Dini

\* The graphs handed to the backtracking search
InitGrafo == \E n \in 1..MaxN : \E f \in Formas(n) : GrafoDe(n, f)

SinMC ==
    /\ asign = Vacio
    /\ min_conflictos = 0
    /\ repeticiones = 0
    /\ iteracion = 0
    /\ max_iter = 0
    /\ paciencia = 0

InitBT ==
    /\ cuenta = Vacio
    /\ asignacion = Vacio
    /\ backtracking = 0
    /\ pila = <<>>
    /\ pc = "inicio"
    /\ apn = None
    /\ dom_red = Vacio
    /\ pendientes = {}
    /\ Dpre = D
    /\ cons = "nada"
    /\ SinMC

Init ==
    /\ InitGrafo
    /\ nivel \in 0..2
    /\ InitBT

\* Level 2 on ring graphs with sub-domains of 1..MaxV
InitAnillo ==
    /\ X = 1..NAnillo
    /\ N = Anillo(NAnillo)
    /\ tipo \in {"reinas", "sudoku"}
    /\ Dini \in [1..NAnillo -> SUBSET (1..MaxV)]
    /\ D = Dini
    /\ nivel = 2
    /\ InitBT

Marco(var, vals) == [var |-> var, vals |-> vals, val |-> 0, dom_red |-> Vacio]

Tope == pila[Len(pila)]

SinTope == SubSeq(pila, 1, Len(pila) - 1)

CambiarTope(m) == [pila EXCEPT ![Len(pila)] = m]

\* asignacion_completa: reset the counter and call the recursive search
AsignacionCompleta ==
    /\ pc = "inicio"
    /\ backtracking' = 0
    /\ asignacion' = Vacio
    /\ pc' = "entrar"
    /\ UNCHANGED <<grafo, D, pila, apn, dom_red, pendientes, Dpre, cons, mc>>

\* Entry of asignacion_grafo_restriccion: return a complete assignment, or
\* select the variable and order its values
Entrar ==
    /\ pc = "entrar"
    /\ IF DOMAIN asignacion = X
       THEN /\ apn' = Some(asignacion)
            /\ pc' = "retorno"
            /\ pila' = pila
       ELSE LET var == selecciona_variable(D, asignacion)
            IN  /\ pila' = Append(pila, Marco(var, ordena_valores(D, asignacion, var)))
                /\ pc' = "itera"
                /\ apn' = apn
    /\ cons' = "nada"
    /\ Dpre' = D
    /\ UNCHANGED <<grafo, D, asignacion, backtracking, dom_red, pendientes, mc>>

\* Agotar returning None without counting
AgotarSinContar ==
    /\ pc = "itera"
    /\ Tope.vals = <<>>
    /\ apn' = None
    /\ pila' = SinTope
    /\ pc' = "retorno"
    /\ cons' = "nada"
    /\ Dpre' = D
    /\ UNCHANGED <<grafo, D, asignacion, backtracking, dom_red, pendientes, mc>>

\* The for loop has no value left: count a backtrack and return None
Agotar ==
    /\ pc = "itera"
    /\ Tope.vals = <<>>
    /\ backtracking' = backtracking + 1
    /\ apn' = None
    /\ pila' = SinTope
    /\ pc' = "retorno"
    /\ cons' = "nada"
    /\ Dpre' = D
    /\ UNCHANGED <<grafo, D, asignacion, dom_red, pendientes, mc>>

\* One iteration of the for loop: call consistencia on the next value; levels
\* 0 and 1 finish here, level 2 goes on with its worklist
Probar ==
    /\ pc = "itera"
    /\ Tope.vals # <<>>
    /\ LET var == Tope.var
           val == Head(Tope.vals)
           r == ConsistenciaBase(D, asignacion, var, val, nivel)
       IN  /\ D' = r.D
           /\ Dpre' = D
           /\ IF ~r.ok
              THEN /\ backtracking' = backtracking + 1
                   /\ pila' = CambiarTope(Marco(var, Tail(Tope.vals)))
                   /\ cons' = r.etapa
                   /\ UNCHANGED <<pc, asignacion, dom_red, pendientes>>
              ELSE IF nivel = 2
              THEN /\ pila' = CambiarTope([Tope EXCEPT !.val = val, !.vals = Tail(Tope.vals)])
                   /\ dom_red' = r.dom_red
                   /\ pendientes' = PendientesIniciales(asignacion)
                   /\ pc' = "ac3"
                   /\ cons' = "nada"
                   /\ UNCHANGED <<asignacion, backtracking>>
              ELSE /\ pila' = CambiarTope([var |-> var, vals |-> Tail(Tope.vals),
                                           val |-> val, dom_red |-> r.dom_red])
                   /\ asignacion' = Poner(asignacion, var, val)
                   /\ pc' = "entrar"
                   /\ cons' = "exito"
                   /\ UNCHANGED <<backtracking, dom_red, pendientes>>
    /\ UNCHANGED <<grafo, apn, mc>>

\* One iteration of the while loop of level 2: pop any pair and revise it
Revisar ==
    /\ pc = "ac3"
    /\ \E par \in pendientes :
        LET x_a == par[1]
            x_b == par[2]
            val_set == SinSoporte(D, x_a, x_b)
            red1 == Acumular(dom_red, x_a, val_set)
            D1 == [D EXCEPT ![x_a] = D[x_a] \ val_set]
        IN  IF val_set = {}
            THEN /\ pendientes' = pendientes \ {par}
                 /\ UNCHANGED <<D, dom_red, pc, backtracking, pila, cons>>
            ELSE IF D1[x_a] = {}
            THEN /\ D' = Restaurar(D1, red1)
                 /\ dom_red' = Vacio
                 /\ pendientes' = {}
                 /\ backtracking' = backtracking + 1
                 /\ pila' = CambiarTope(Marco(Tope.var, Tope.vals))
                 /\ pc' = "itera"
                 /\ cons' = "vaciado_ac3"
            ELSE /\ D' = D1
                 /\ dom_red' = red1
                 /\ pendientes' = (pendientes \ {par}) \cup Reencolar(asignacion, x_a)
                 /\ UNCHANGED <<pc, backtracking, pila, cons>>
    /\ UNCHANGED <<grafo, asignacion, apn, Dpre, mc>>

\* The worklist is empty: consistencia returns its record, the value is
\* assigned and the search descends
Propagado ==
    /\ pc = "ac3"
    /\ pendientes = {}
    /\ pila' = CambiarTope([Tope EXCEPT !.dom_red = dom_red])
    /\ dom_red' = Vacio
    /\ asignacion' = Poner(asignacion, Tope.var, Tope.val)
    /\ pc' = "entrar"
    /\ cons' = "exito"
    /\ UNCHANGED <<grafo, D, backtracking, pendientes, apn, Dpre, mc>>

\* Regresar without 'del asignacion[var]'
RegresarSinQuitar ==
    /\ pc = "retorno"
    /\ pila # <<>>
    /\ D' = Restaurar(D, Tope.dom_red)
    /\ IF apn.ok
       THEN /\ pila' = SinTope
            /\ UNCHANGED <<pc, asignacion>>
       ELSE /\ asignacion' = asignacion
            /\ pila' = CambiarTope(Marco(Tope.var, Tope.vals))
            /\ pc' = "itera"
    /\ cons' = "nada"
    /\ Dpre' = D'
    /\ UNCHANGED <<grafo, backtracking, apn, dom_red, pendientes, mc>>

\* Regresar restoring the domains only when the recursive call failed
RegresarRestaurandoTrasFallo ==
    /\ pc = "retorno"
    /\ pila # <<>>
    /\ IF apn.ok
       THEN /\ pila' = SinTope
            /\ UNCHANGED <<D, pc, asignacion>>
       ELSE /\ D' = Restaurar(D, Tope.dom_red)
            /\ asignacion' = Quitar(asignacion, Tope.var)
            /\ pila' = CambiarTope(Marco(Tope.var, Tope.vals))
            /\ pc' = "itera"
    /\ cons' = "nada"
    /\ Dpre' = D'
    /\ UNCHANGED <<grafo, backtracking, apn, dom_red, pendientes, mc>>

\* The recursive call came back: restore the domains, then pass a solution
\* up or drop the variable and go on with the next value
Regresar ==
    /\ pc = "retorno"
    /\ pila # <<>>
    /\ D' = Restaurar(D, Tope.dom_red)
    /\ IF apn.ok
       THEN /\ pila' = SinTope
            /\ UNCHANGED <<pc, asignacion>>
       ELSE /\ asignacion' = Quitar(asignacion, Tope.var)
            /\ pila' = CambiarTope(Marco(Tope.var, Tope.vals))
            /\ pc' = "itera"
    /\ cons' = "nada"
    /\ Dpre' = D'
    /\ UNCHANGED <<grafo, backtracking, apn, dom_red, pendientes, mc>>

\* The outermost invocation came back: asignacion_completa returns
Terminar ==
    /\ pc = "retorno"
    /\ pila = <<>>
    /\ pc' = "fin"
    /\ cons' = "nada"
    /\ Dpre' = D
    /\ UNCHANGED <<grafo, D, asignacion, backtracking, pila, apn, dom_red, pendientes, mc>>

Next ==
    \/ AsignacionCompleta
    \/ Entrar
    \/ Agotar
    \/ Probar
    \/ Revisar
    \/ Propagado
    \/ Regresar
    \/ Terminar

Spec == Init /\ [][Next]_vars

SpecAnillo == InitAnillo /\ [][Next]_vars

\* The caller runs the search again at the next level on an equal graph,
\* as the driver of nreinasCSP.py does, after noting the counter
SiguienteNivel ==
    /\ pc = "fin"
    /\ nivel < 2
    /\ cuenta' = Poner(cuenta, nivel, backtracking)
    /\ nivel' = nivel + 1
    /\ D' = Dini
    /\ Dpre' = Dini
    /\ apn' = None
    /\ cons' = "nada"
    /\ pc' = "inicio"
    /\ UNCHANGED <<X, N, tipo, Dini, asignacion, backtracking, pila, dom_red,
                   pendientes, mc>>

NextNiveles ==
    \/ Next
    \/ SiguienteNivel

\* Chains of NCadena cells with values 1..MaxPista, each cell with the clue 1
\* or with every value
GrafoCadena ==
    /\ X = 1..NCadena
    /\ N = Cadena(NCadena)
    /\ tipo = "sudoku"
    /\ Dini \in [1..NCadena -> {1..MaxPista, {1}}]
    /\ D = Dini

\* Nreinas(): the queens graph with its default size
GrafoReinas ==
    /\ X = 1..ReinasEscenario
    /\ N = Completo(ReinasEscenario)
    /\ tipo = "reinas"
    /\ Dini = [x \in X |-> X]
    /\ D = Dini

\* The graphs of Init, the chains and the queens of the scenario, searched at
\* level 0, then 1, then 2
InitNiveles ==
    /\ InitGrafo \/ GrafoCadena \/ GrafoReinas
    /\ nivel = 0
    /\ InitBT

SpecNiveles == InitNiveles /\ [][NextNiveles]_vars

----------------------------------------------------------------------------
\* minimos_conflictos

\* EnConflicto counting the compatible neighbours
EnConflictoSinNegar(a, x, v) ==
    Cardinality({x_j \in N[x] : restriccion_binaria(x, v, x_j, a[x_j])})

\* The number of neighbours of x in conflict with x = v under the assignment a
EnConflicto(a, x, v) ==
    Cardinality({x_j \in N[x] : ~restriccion_binaria(x, v, x_j, a[x_j])})

\* The dict 'conflictos' of one iteration
ConflictosDe(a) == [x \in X |-> EnConflicto(a, x, a[x])]

RECURSIVE Suma(_, _)
Suma(f, S) ==
    IF S = {} THEN 0 ELSE LET x == Min(S) IN f[x] + Suma(f, S \ {x})

\* actual = sum(conflictos.values())
Actual(a) == Suma(ConflictosDe(a), X)

\* {x: choice(list(csp.D[x])) for x in csp.X}
Aleatorias == {a \in [X -> UNION {D[x] : x \in X}] : \A x \in X : a[x] \in D[x]}

\* min(csp.D[x], key=...): the first value with the fewest conflicts
MejorValor(a, x) ==
    Min({v \in D[x] : \A w \in D[x] : EnConflicto(a, x, v) <= EnConflicto(a, x, w)})

\* Quedan running one iteration too many
QuedanUnaMas == iteracion <= max_iter

\* for _ in range(max_iter): iterations are left
Quedan == iteracion < max_iter

\* Estancado restarting as soon as the count reaches paciencia
EstancadoAlLlegar(a) ==
    Actual(a) = min_conflictos /\ repeticiones + 1 >= paciencia

\* The stagnation test of an iteration whose total equals the best one
Estancado(a) ==
    Actual(a) = min_conflictos /\ repeticiones + 1 > paciencia

\* The graphs handed to minimos_conflictos: the queens of Nreinas and the
\* chains of distinct neighbours
FormasMC(n) == {<<"reinas", Completo(n)>>, <<"sudoku", Cadena(n)>>}

InitMC ==
    /\ \/ /\ \E n \in 1..MaxN : \E f \in FormasMC(n) : GrafoDe(n, f)
          /\ max_iter \in {0, MaxIter}
          /\ paciencia \in {0, MaxPaciencia}
       \/ /\ X = 1..2
          /\ N = Completo(2)
          /\ tipo = "reinas"
          /\ Dini = [x \in 1..2 |-> 1..2]
          /\ D = Dini
          /\ max_iter = IterEscenario
          /\ paciencia = PacienciaDefecto
    /\ nivel = 0
    /\ cuenta = Vacio
    /\ asignacion = Vacio
    /\ backtracking = 0
    /\ pila = <<>>
    /\ pc = "mc_inicio"
    /\ apn = None
    /\ dom_red = Vacio
    /\ pendientes = {}
    /\ Dpre = D
    /\ cons = "nada"
    /\ asign = Vacio
    /\ min_conflictos = 0
    /\ repeticiones = 0
    /\ iteracion = 0

\* Iniciar taking the total of the first assignment for the best one
IniciarConActual ==
    /\ pc = "mc_inicio"
    /\ IF \E x \in X : D[x] = {}
       THEN /\ pc' = "mc_error"
            /\ UNCHANGED <<asign, min_conflictos, repeticiones>>
       ELSE /\ asign' \in Aleatorias
            /\ min_conflictos' = Actual(asign')
            /\ repeticiones' = -1
            /\ pc' = "mc_bucle"
    /\ UNCHANGED <<grafo, D, bt, iteracion, max_iter, paciencia>>

\* The code before the loop: choice() raises IndexError on an empty domain;
\* repeticiones is not bound yet (-1)
Iniciar ==
    /\ pc = "mc_inicio"
    /\ IF \E x \in X : D[x] = {}
       THEN /\ pc' = "mc_error"
            /\ UNCHANGED <<asign, min_conflictos, repeticiones>>
       ELSE /\ asign' \in Aleatorias
            /\ min_conflictos' = Infinito
            /\ repeticiones' = -1
            /\ pc' = "mc_bucle"
    /\ UNCHANGED <<grafo, D, bt, iteracion, max_iter, paciencia>>

\* An iteration that finds no conflict returns the assignment
Exito ==
    /\ pc = "mc_bucle"
    /\ Quedan
    /\ Actual(asign) = 0
    /\ iteracion' = iteracion + 1
    /\ apn' = Some(asign)
    /\ pc' = "mc_fin"
    /\ UNCHANGED <<grafo, D, asignacion, backtracking, pila, dom_red, pendientes,
                   Dpre, cons, asign, min_conflictos, repeticiones, max_iter, paciencia>>

\* An iteration that finds the search stalled draws a new assignment and
\* goes to the next iteration without repairing
Reiniciar ==
    /\ pc = "mc_bucle"
    /\ Quedan
    /\ Actual(asign) # 0
    /\ Actual(asign) >= min_conflictos
    /\ Estancado(asign)
    /\ iteracion' = iteracion + 1
    /\ IF repeticiones < 0
       THEN /\ pc' = "mc_error"
            /\ UNCHANGED <<asign, min_conflictos, repeticiones>>
       ELSE /\ asign' \in Aleatorias
            /\ min_conflictos' = Infinito
            /\ repeticiones' = 0
            /\ pc' = pc
    /\ UNCHANGED <<grafo, D, bt, max_iter, paciencia>>

\* Any other iteration updates the counters and repairs one variable in
\* conflict
Reparar ==
    /\ pc = "mc_bucle"
    /\ Quedan
    /\ Actual(asign) # 0
    /\ Actual(asign) < min_conflictos \/ ~Estancado(asign)
    /\ iteracion' = iteracion + 1
    /\ IF Actual(asign) = min_conflictos /\ repeticiones < 0
       THEN /\ pc' = "mc_error"
            /\ UNCHANGED <<asign, min_conflictos, repeticiones>>
       ELSE /\ IF Actual(asign) < min_conflictos
               THEN /\ min_conflictos' = Actual(asign)
                    /\ repeticiones' = 0
               ELSE IF Actual(asign) = min_conflictos
               THEN /\ repeticiones' = repeticiones + 1
                    /\ min_conflictos' = min_conflictos
               ELSE UNCHANGED <<min_conflictos, repeticiones>>
            /\ \E x \in {y \in X : ConflictosDe(asign)[y] > 0} :
                   asign' = [asign EXCEPT ![x] = MejorValor(asign, x)]
            /\ pc' = pc
    /\ UNCHANGED <<grafo, D, bt, max_iter, paciencia>>

\* The for loop ran max_iter iterations: return None
Agotado ==
    /\ pc = "mc_bucle"
    /\ ~Quedan
    /\ apn' = None
    /\ pc' = "mc_fin"
    /\ UNCHANGED <<grafo, D, asignacion, backtracking, pila, dom_red, pendientes,
                   Dpre, cons, mc>>

NextMC ==
    \/ Iniciar
    \/ Exito
    \/ Reiniciar
    \/ Reparar
    \/ Agotado

SpecMC == InitMC /\ [][NextMC]_vars

----------------------------------------------------------------------------
\* Properties of the backtracking search and of consistencia

\* a satisfies every binary constraint of the graph
Cumple(a) ==
    \A x \in X : \A y \in N[x] : restriccion_binaria(x, a[x], y, a[y])

\* Some full assignment over the initial domains satisfies every constraint
Satisfacible ==
    \E a \in [X -> UNION {Dini[x] : x \in X}] :
        (\A x \in X : a[x] \in Dini[x]) /\ Cumple(a)

\* The assignment dict consistencia was called with: the last call's variable
\* is added to the dict only after the call returned
AsgLlamada == Quitar(asignacion, Tope.var)

\* C1: an assignment returned by asignacion_completa, at any level, gives
\* every variable of X a value of its initial domain and satisfies
\* restriccion_binaria for every variable and every neighbour of it.
C1_Solidez ==
    (pc = "fin" /\ apn.ok) =>
        /\ DOMAIN apn.a = X
        /\ \A x \in X : apn.a[x] \in Dini[x]
        /\ Cumple(apn.a)

C1_Testigo ==
    /\ pc = "fin"
    /\ apn.ok
    /\ Cardinality(X) = MaxN
    /\ \E x \in X : N[x] # {} /\ Cardinality(Dini[x]) > 1

\* C2: at each of the levels 0, 1 and 2 asignacion_completa returns an
\* assignment exactly when the graph has a full assignment satisfying every
\* constraint, so the three levels agree on the outcome.
C2_Completitud ==
    pc = "fin" => (apn.ok <=> Satisfacible)

\* 3-queens at level 2 ends without a solution
C2_Testigo ==
    /\ pc = "fin"
    /\ ~apn.ok
    /\ nivel = 2
    /\ tipo = "reinas"
    /\ Cardinality(X) = 3
    /\ N = Completo(3)
    /\ \A x \in X : Dini[x] = X

\* C3: when asignacion_completa returns, every variable outside the returned
\* assignment has its initial domain; after None the whole of csp.D is the
\* initial domain map.
C3_Restauracion ==
    pc = "fin" =>
        /\ \A x \in X \ DOMAIN apn.a : D[x] = Dini[x]
        /\ ~apn.ok => D = Dini

\* A failed search that went through at least one backtrack below the root
C3_Testigo ==
    /\ pc = "fin"
    /\ ~apn.ok
    /\ backtracking > Cardinality(X)
    /\ \A x \in X : Cardinality(Dini[x]) > 1

\* C4: when consistencia returns None, whatever the stage that failed,
\* csp.D is what it was before the call.
C4_FalloAtomico ==
    cons \in {"incompatible", "vaciado_fc", "vaciado_ac3"} => D = Dpre

\* An arc revision emptied a domain after the call had collapsed the
\* domain of x_i
C4_Testigo ==
    /\ cons = "vaciado_ac3"
    /\ Cardinality(D[Tope.var]) > 1
    /\ \E x \in X \ {Tope.var} : Cardinality(D[x]) > 1

\* C5: when consistencia succeeds, the domain of every variable before the
\* call is the disjoint union of its domain after the call and of its entry
\* in the returned record, so the restoring loop gives back the domain map
\* of before the call.
C5_RegistroExacto ==
    cons = "exito" =>
        LET rec == Tope.dom_red
            quitado(x) == IF x \in DOMAIN rec THEN rec[x] ELSE {}
        IN  /\ DOMAIN rec \subseteq X
            /\ \A x \in X : /\ Dpre[x] = D[x] \cup quitado(x)
                             /\ D[x] \cap quitado(x) = {}
            /\ Restaurar(D, rec) = Dpre

\* A level-2 success whose record holds values of a variable other than x_i
C5_Testigo ==
    /\ cons = "exito"
    /\ nivel = 2
    /\ \E x \in DOMAIN Tope.dom_red : x # Tope.var /\ Tope.dom_red[x] # {}

\* The pairs of unassigned neighbours are arc consistent under Dc
ArcoConsistente(Dc, asg) ==
    \A x \in X \ DOMAIN asg : \A y \in N[x] \ DOMAIN asg :
        \A vx \in Dc[x] : \E vy \in Dc[y] : restriccion_binaria(x, vx, y, vy)

\* C6: when consistencia succeeds at level 2, every value left in the
\* domain of an unassigned variable has a support in the domain of each of
\* its unassigned neighbours.
C6_PuntoFijo ==
    (cons = "exito" /\ nivel = 2) => ArcoConsistente(D, AsgLlamada)

\* C10: with a variable whose domain is empty from the start,
\* asignacion_completa returns None at every level and leaves csp.D as it
\* was.
C10_DominioVacio ==
    (pc = "fin" /\ \E x \in X : Dini[x] = {}) => (~apn.ok /\ D = Dini)

\* The empty domain is not the first variable's, and the search assigned
\* other variables before meeting it
C10_Testigo ==
    /\ pc = "fin"
    /\ \E x \in X : Dini[x] = {}
    /\ backtracking > 1
    /\ Dini[selecciona_variable(Dini, Vacio)] # {}

\* The value the last consistencia call was made with: the frame keeps it
\* after a success; after a failure it is the value that comes before the
\* ones still to try
ValLlamada ==
    IF cons = "exito" THEN Tope.val
    ELSE LET todos == ordena_valores(Dpre, AsgLlamada, Tope.var)
         IN  todos[Len(todos) - Len(Tope.vals)]

\* The while loop of level 2 run with the pairs popped in ascending order
RECURSIVE EnOrden(_, _, _)
EnOrden(Dc, pend, asg) ==
    IF pend = {} THEN [ok |-> TRUE, D |-> Dc]
    ELSE LET par == CHOOSE p \in pend : \A q \in pend :
                        p[1] < q[1] \/ (p[1] = q[1] /\ p[2] <= q[2])
             val_set == SinSoporte(Dc, par[1], par[2])
             D1 == [Dc EXCEPT ![par[1]] = Dc[par[1]] \ val_set]
         IN  IF val_set = {} THEN EnOrden(Dc, pend \ {par}, asg)
             ELSE IF D1[par[1]] = {} THEN [ok |-> FALSE, D |-> Dc]
             ELSE EnOrden(D1, (pend \ {par}) \cup Reencolar(asg, par[1]), asg)

\* C11: a level-2 call of consistencia ends the same way, and on success
\* with the same domain map, whatever the order in which the pairs are
\* popped: every run agrees with the run that pops them in ascending order.
C11_OrdenIndiferente ==
    (nivel = 2 /\ cons \in {"exito", "vaciado_ac3"}) =>
        LET base == ConsistenciaBase(Dpre, AsgLlamada, Tope.var, ValLlamada, 1)
            canon == EnOrden(base.D, PendientesIniciales(AsgLlamada), AsgLlamada)
        IN  /\ canon.ok <=> cons = "exito"
            /\ cons = "exito" => D = canon.D

C13_DominiosUnitarios ==
    (pc = "fin" /\ apn.ok) => \A x \in X : D[x] = {apn.a[x]}

\* C13: after asignacion_completa returns an assignment, csp.D is the
\* initial domain map again, the domains of the variables of the solution
\* included, and the value returned for a variable is in its domain.
C13_DominiosRestaurados ==
    (pc = "fin" /\ apn.ok) =>
        /\ D = Dini
        /\ \A x \in X : apn.a[x] \in D[x]

\* A level-2 solution of a graph of MaxN variables, one of which had a choice
C13_Testigo ==
    /\ pc = "fin"
    /\ apn.ok
    /\ nivel = 2
    /\ Cardinality(X) = MaxN
    /\ \E x \in X : Cardinality(D[x]) > 1 /\ N[x] # {}

\* The graph is Nreinas(4) with its full domains
CuatroReinas ==
    /\ X = 1..ReinasEscenario
    /\ tipo = "reinas"
    /\ N = Completo(ReinasEscenario)
    /\ \A x \in X : Dini[x] = X

\* C14: on Nreinas(4) asignacion_completa at level 1 returns a permutation
\* of 1..4 without two queens on a common diagonal, and csp.backtracking is
\* below 10 on return.
C14_CuatroReinas ==
    (pc = "fin" /\ nivel = 1 /\ CuatroReinas) =>
        /\ apn.ok
        /\ DOMAIN apn.a = X
        /\ {apn.a[x] : x \in X} = 1..4
        /\ \A x, y \in X : x # y => Abs(apn.a[x] - apn.a[y]) # Abs(x - y)
        /\ backtracking < 10

\* The run ends with the solution CPython finds, after 4 backtracks
C14_Testigo ==
    /\ pc = "fin"
    /\ nivel = 1
    /\ CuatroReinas
    /\ apn = Some(<<2, 4, 1, 3>>)
    /\ backtracking = 4

\* The pairs (unassigned neighbour x_j, value v_j of its domain) that
\* violate the constraint with x_i = v_i
Violaciones(Dc, asg, x_i, v_i) ==
    Cardinality({p \in UNION {{<<x_j, v_j>> : v_j \in Dc[x_j]} :
                                 x_j \in N[x_i] \ DOMAIN asg} :
                    ~restriccion_binaria(x_i, v_i, p[1], p[2])})

\* vals lists every value of Dc[x_i] once, by ascending number of violating
\* pairs, values with the same number in ascending order
MenosRestrictivoPrimero(vals, Dc, asg, x_i) ==
    /\ Len(vals) = Cardinality(Dc[x_i])
    /\ {vals[i] : i \in 1..Len(vals)} = Dc[x_i]
    /\ \A i, j \in 1..Len(vals) : i < j =>
          \/ Violaciones(Dc, asg, x_i, vals[i]) < Violaciones(Dc, asg, x_i, vals[j])
          \/ /\ Violaciones(Dc, asg, x_i, vals[i]) = Violaciones(Dc, asg, x_i, vals[j])
             /\ vals[i] < vals[j]

\* C15: the list of values an invocation of asignacion_grafo_restriccion
\* gets from ordena_valores holds every value of the domain of its variable
\* exactly once, in ascending order of the number of violating pairs with
\* the domains of the unassigned neighbours, equal numbers in the
\* enumeration order of the domain.
C15_OrdenValores ==
    [][(pc = "entrar" /\ pc' = "itera") =>
          LET m == pila'[Len(pila')]
          IN  MenosRestrictivoPrimero(m.vals, D, asignacion, m.var)]_vars

\* A fresh list of three values that is not in ascending order and holds
\* two values with the same number of violating pairs
C15_Testigo ==
    /\ pc = "itera"
    /\ Tope.val = 0
    /\ Len(Tope.vals) = Cardinality(D[Tope.var])
    /\ Len(Tope.vals) >= 3
    /\ \E i, j \in 1..Len(Tope.vals) : i < j /\ Tope.vals[i] > Tope.vals[j]
    /\ \E i, j \in 1..Len(Tope.vals) :
          /\ i < j
          /\ Violaciones(D, asignacion, Tope.var, Tope.vals[i])
               = Violaciones(D, asignacion, Tope.var, Tope.vals[j])

\* C16: when consistencia succeeds at level 1, the domain of x_i is {v_i},
\* the domain of every unassigned neighbour of x_i is made of its values of
\* before the call that are compatible with x_i = v_i and is not empty, and
\* the domain of every other variable is what it was before the call.
C16_ForwardChecking ==
    (cons = "exito" /\ nivel = 1) =>
        LET x_i == Tope.var
            v_i == Tope.val
            vecinos == N[x_i] \ DOMAIN AsgLlamada
        IN  /\ D[x_i] = {v_i}
            /\ \A x_j \in vecinos :
                  /\ D[x_j] = {v_j \in Dpre[x_j] :
                                  restriccion_binaria(x_i, v_i, x_j, v_j)}
                  /\ D[x_j] # {}
            /\ \A x \in X \ (vecinos \cup {x_i}) : D[x] = Dpre[x]

\* A level-1 success that reduced an unassigned neighbour while a variable
\* that is not a neighbour had a value the neighbour lost
C16_Testigo ==
    /\ cons = "exito"
    /\ nivel = 1
    /\ \E x_j \in N[Tope.var] \ DOMAIN AsgLlamada :
          /\ D[x_j] # Dpre[x_j]
          /\ \E y \in X \ (N[Tope.var] \cup {Tope.var}) :
                y \notin DOMAIN AsgLlamada /\ (Dpre[x_j] \ D[x_j]) \cap D[y] # {}

\* This step is a call of consistencia that returns None
ConsistenciaFalla ==
    /\ pc \in {"itera", "ac3"}
    /\ cons' \in {"incompatible", "vaciado_fc", "vaciado_ac3"}

\* This step is an invocation that ran out of candidates returning None
InvocacionAgotada ==
    /\ pc = "itera"
    /\ pc' = "retorno"
    /\ Len(pila') = Len(pila) - 1

\* C17: asignacion_completa sets csp.backtracking to 0; after that the
\* counter grows by one with every call of consistencia that returns None
\* and with every invocation that runs out of candidates and returns None,
\* and with nothing else: coming back from a failed recursion adds nothing.
C17_Contador ==
    [][/\ pc = "inicio" => backtracking' = 0
       /\ pc # "inicio" =>
             backtracking' = backtracking
                               + (IF ConsistenciaFalla THEN 1 ELSE 0)
                               + (IF InvocacionAgotada THEN 1 ELSE 0)]_vars

\* An invocation below the root returns None to a caller whose candidate
\* consistencia had accepted, after failures were counted
C17_Testigo ==
    /\ pc = "retorno"
    /\ ~apn.ok
    /\ pila # <<>>
    /\ backtracking >= 2

\* The depth of the invocation that is running, being entered or
\* returning; the outermost one has depth 0
Profundidad ==
    IF pc \in {"itera", "ac3"} THEN Len(pila) - 1 ELSE Len(pila)

\* The variables and values chosen by the invocations of depth below k
Elegidas(k) ==
    [x \in {pila[i].var : i \in 1..k} |->
        (CHOOSE i \in 1..k : pila[i].var = x) ]

ValoresElegidos(k) ==
    [x \in {pila[i].var : i \in 1..k} |-> pila[Elegidas(k)[x]].val]

\* C19 as stated: the number of assigned variables is the recursion depth
\* at every moment of the call.
C19_SiempreProfundidad ==
    Cardinality(DOMAIN asignacion) = Profundidad

\* C19: until a solution is found the assignment dict holds exactly the
\* choices of the invocations that enclose the running one, so its size is
\* the recursion depth; a descent adds exactly the variable of the
\* invocation that descends, an invocation that returns None leaves the
\* dict as it was when it was entered, and the choices of the enclosing
\* invocations are not touched by the inner ones.
C19_Pila ==
    /\ []((pc \in {"entrar", "itera", "ac3"} \/ (pc = "retorno" /\ ~apn.ok)) =>
            /\ asignacion = ValoresElegidos(Profundidad)
            /\ Cardinality(DOMAIN asignacion) = Profundidad)
    /\ [][/\ (pc \in {"itera", "ac3"} /\ pc' = "entrar") =>
               /\ Tope.var \notin DOMAIN asignacion
               /\ DOMAIN asignacion' = DOMAIN asignacion \cup {Tope.var}
               /\ \A x \in DOMAIN asignacion : asignacion'[x] = asignacion[x]
          /\ (pc = "itera" /\ pc' = "retorno") => asignacion' = asignacion
          /\ \A i \in 1..Len(pila) - 1 :
               i < Len(pila') => /\ pila'[i].var = pila[i].var
                                 /\ pila'[i].val = pila[i].val]_vars

\* An invocation of depth 2 returns None with the two choices of its
\* callers in the dict
C19_Testigo ==
    /\ pc = "retorno"
    /\ ~apn.ok
    /\ Len(pila) = 2
    /\ Cardinality(DOMAIN asignacion) = 2

----------------------------------------------------------------------------
\* Properties of minimos_conflictos

\* The run of the scenario: 2-queens with max_iter = 100
DosReinas ==
    /\ X = 1..2
    /\ tipo = "reinas"
    /\ N = Completo(2)
    /\ \A x \in X : Dini[x] = 1..2
    /\ max_iter = IterEscenario

\* C7: on a graph without empty domains minimos_conflictos never runs more
\* than max_iter iterations of its loop: every step of the loop, a restart
\* included, uses up one iteration or returns, a repair always has a
\* variable in conflict and a value to give it, and nothing is raised; on
\* 2-queens with max_iter = 100 it returns None.
C7_Acotado ==
    /\ [](iteracion <= max_iter)
    /\ [][pc = "mc_bucle" => (iteracion' = iteracion + 1 \/ pc' = "mc_fin")]_vars
    /\ []((pc = "mc_bucle" /\ Quedan /\ Actual(asign) # 0) =>
            \E x \in X : ConflictosDe(asign)[x] > 0 /\ D[x] # {})
    /\ []((\A x \in X : Dini[x] # {}) => pc # "mc_error")
    /\ []((DosReinas /\ pc = "mc_fin") => ~apn.ok)

\* 2-queens gave up after its 100 iterations
C7_Testigo ==
    /\ DosReinas
    /\ pc = "mc_fin"
    /\ ~apn.ok
    /\ iteracion = IterEscenario

\* C8: the working assignment of minimos_conflictos is full and within the
\* domains at every iteration, and a returned assignment is full and
\* satisfies restriccion_binaria for every variable and every neighbour.
C8_SolidezMC ==
    /\ pc \in {"mc_bucle", "mc_fin"} =>
          /\ DOMAIN asign = X
          /\ \A x \in X : asign[x] \in D[x]
    /\ (pc = "mc_fin" /\ apn.ok) =>
          /\ DOMAIN apn.a = X
          /\ Cumple(apn.a)

\* A solution found after at least one repair on a graph of MaxN variables
\* whose domains leave a choice
C8_Testigo ==
    /\ pc = "mc_fin"
    /\ apn.ok
    /\ iteracion > 2
    /\ Cardinality(X) = MaxN
    /\ \E x \in X : N[x] # {} /\ Cardinality(D[x]) > 1

\* C9: handed a graph with an empty domain, minimos_conflictos raises no
\* error.
C9_VacioSinError ==
    (\E x \in X : Dini[x] = {}) => pc # "mc_error"

\* C18: an iteration that finds conflicts restarts (new random assignment,
\* best count back to its initial value, stagnation count 0) exactly when
\* the total equals the best count and the stagnation count, once
\* incremented, exceeds paciencia, and then repairs nothing; any other such
\* iteration gives one variable in conflict its best value and changes no
\* other variable.
C18_Reinicio ==
    [][LET c == ConflictosDe(asign)
           actual == Suma(c, X)
           parado == actual = min_conflictos /\ repeticiones + 1 > paciencia
           cambiadas == {x \in X : asign'[x] # asign[x]}
       IN  (pc = "mc_bucle" /\ iteracion' = iteracion + 1 /\ actual # 0) =>
              /\ pc' = "mc_bucle"
              /\ parado =>
                    /\ \A x \in X : asign'[x] \in D[x]
                    /\ min_conflictos' = Infinito
                    /\ repeticiones' = 0
              /\ ~parado =>
                    /\ min_conflictos' # Infinito
                    /\ min_conflictos' = IF actual < min_conflictos
                                           THEN actual ELSE min_conflictos
                    /\ repeticiones' = IF actual < min_conflictos THEN 0
                                        ELSE IF actual = min_conflictos
                                        THEN repeticiones + 1 ELSE repeticiones
                    /\ Cardinality(cambiadas) <= 1
                    /\ \E x \in X :
                          /\ c[x] > 0
                          /\ cambiadas \subseteq {x}
                          /\ asign'[x] = MejorValor(asign, x)]_vars

\* A restart that came after the stagnation count had passed a paciencia
\* above 0
C18_Testigo ==
    /\ pc = "mc_bucle"
    /\ iteracion > 0
    /\ paciencia > 0
    /\ min_conflictos = Infinito
    /\ repeticiones = 0

\* C20: the branch that increments and compares repeticiones is reached
\* only with repeticiones bound: an earlier iteration or a restart has set
\* it to 0.
C20_RepeticionesLigada ==
    (pc = "mc_bucle" /\ Quedan /\ Actual(asign) # 0
        /\ Actual(asign) = min_conflictos) => repeticiones >= 0

\* The branch is about to run for the first time since repeticiones was set
C20_Testigo ==
    /\ pc = "mc_bucle"
    /\ Quedan
    /\ Actual(asign) # 0
    /\ Actual(asign) = min_conflictos
    /\ repeticiones = 0
    /\ iteracion = 1

====
